---------------------------- MODULE Spec2Model ----------------------------
(* Event-driven recurrence-and-reminder pipeline:                          *)
(*   backend/src/services/tasks.py + services/events/publisher.py  (owner) *)
(*   recurring-service/src/...                               (Reactivator) *)
(*   notification-service/src/...                               (Notifier) *)
EXTENDS Integers, Sequences, FiniteSets, TLC

VARIABLES
    logLevel,      \* recurring-service: effective level of the stdlib loggers
    calcIn,        \* calculate_next_due: the arguments and the clock of one call
    calcOut,       \* calculate_next_due: what the call did (NoResult before it)
    bus,           \* task-events topic: the message the gateway holds for the Reactivator
    nDeliveries,   \* deliveries of that message made so far
    nCreatePosts,  \* POST /api/tasks requests the Reactivator has sent for it
    nTagPosts,     \* POST /api/tasks/{id}/tags requests sent for it
    last,          \* the last delivery to the Reactivator and its answer
    allAccepted,   \* the owning service accepted every request of every delivery so far
    answerOf,      \* redelivery: the Reactivator's answer to a delivery of the held
                   \* message, by body shape and owning-service behaviour
    reminder,      \* reminders topic: the payload the gateway holds for the Notifier
    notifSeen,     \* Notifier: answer to the last delivery of it, per body shape
    nReminders,    \* deliveries of that payload made so far
    nDispatch,     \* Notifier: _send_notification invocations for it
    subscription,  \* gateway: the reminders subscription it read from the Notifier
    store,         \* backend: committed task rows, by task id
    tagRows,       \* backend: committed Tag rows, the names each user owns
    published,     \* backend: publishes requested by _publish_task_event, in order
    submitted,     \* backend: publish jobs handed to the thread pool, in order
    lastOp,        \* backend: the last TasksService operation and its result
    nOps,          \* backend: TasksService operations handled so far
    pubIn,         \* EventPublisher: the arguments and the environment of one call
    pubOut         \* EventPublisher: what the call did (NoResult before it)

calcVars  == <<calcIn, calcOut>>
reactVars == <<bus, nDeliveries, nCreatePosts, nTagPosts, last, allAccepted, answerOf>>
notifVars == <<reminder, notifSeen, nReminders, nDispatch, subscription>>
taskVars  == <<store, tagRows, published, submitted, lastOp, nOps>>
pubVars   == <<pubIn, pubOut>>
vars == <<logLevel, calcVars, reactVars, notifVars, taskVars, pubVars>>

-----------------------------------------------------------------------------
(* Bounds of the model *)
MaxDeliveries == 2
MaxEvents == 3
MaxOps == 3
MaxSteps == 3

-----------------------------------------------------------------------------
(* Python values *)
None == "None"
NoResult == [kind |-> "pending"]

(* datetime: a calendar date, a time of day (slot t) and tzinfo or not.    *)
NoneDT == [y |-> 0, m |-> 0, d |-> 0, t |-> 0, tz |-> "none"]
DT(y, m, d, t, tz) == [y |-> y, m |-> m, d |-> d, t |-> t, tz |-> tz]
TimeSlots == {0, 1}

IsLeap(y) == (y % 4 = 0 /\ y % 100 # 0) \/ y % 400 = 0
DaysInMonth(y, m) ==
    IF m = 2 THEN (IF IsLeap(y) THEN 29 ELSE 28)
    ELSE IF m \in {4, 6, 9, 11} THEN 30 ELSE 31

RECURSIVE DaysBeforeMonth(_, _)
DaysBeforeMonth(y, m) ==
    IF m = 1 THEN 0 ELSE DaysBeforeMonth(y, m - 1) + DaysInMonth(y, m - 1)

DaysBeforeYear(y) ==
    365 * (y - 1) + ((y - 1) \div 4) - ((y - 1) \div 100) + ((y - 1) \div 400)

Ordinal(dt) == DaysBeforeYear(dt.y) + DaysBeforeMonth(dt.y, dt.m) + dt.d

(* the instant a datetime denotes, for <, <= between two naive datetimes *)
Instant(dt) == Ordinal(dt) * Cardinality(TimeSlots) + dt.t

AddOneDay(dt) ==
    IF dt.d < DaysInMonth(dt.y, dt.m) THEN [dt EXCEPT !.d = dt.d + 1]
    ELSE IF dt.m < 12 THEN [dt EXCEPT !.m = dt.m + 1, !.d = 1]
    ELSE [dt EXCEPT !.y = dt.y + 1, !.m = 1, !.d = 1]

(* dt + timedelta(days=n) *)
RECURSIVE AddDays(_, _)
AddDays(dt, n) == IF n = 0 THEN dt ELSE CHOOSE r \in {AddDays(next, n - 1) : next \in {AddOneDay(dt)}} : TRUE

(* dt + relativedelta(months=1): next month, the day clamped to its length *)
AddMonth(dt) ==
    LET ny == IF dt.m = 12 THEN dt.y + 1 ELSE dt.y
        nm == IF dt.m = 12 THEN 1 ELSE dt.m + 1
        nd == IF dt.d > DaysInMonth(ny, nm) THEN DaysInMonth(ny, nm) ELSE dt.d
    IN [dt EXCEPT !.y = ny, !.m = nm, !.d = nd]

(* a <= b on datetimes raises TypeError when exactly one of them is aware *)
Comparable(a, b) == a.tz = b.tz

-----------------------------------------------------------------------------
(* recurring-service/src/core/logging.py: get_logger returns a stdlib       *)
(* logging.Logger. Every logger call of the service passes keyword fields   *)
(* (logger.info("event", task_id=...)); Logger.info/debug/warning/error     *)
(* forward them to Logger._log when the level is enabled, and _log raises   *)
(* TypeError on an unexpected keyword. A disabled level returns at once.    *)
LogLevels == {"DEBUG", "INFO", "WARNING", "ERROR", "CRITICAL"}
LevelNo(l) ==
    CASE l = "DEBUG" -> 10 [] l = "INFO" -> 20 [] l = "WARNING" -> 30
      [] l = "ERROR" -> 40 [] l = "CRITICAL" -> 50
LogRaises(cfg, lvl) == LevelNo(lvl) >= LevelNo(cfg)

-----------------------------------------------------------------------------
(* recurring-service/src/services/recurrence.py *)
(* the interval added with relativedelta(month=1), which sets the month to  *)
(* January instead of adding one                                            *)
Advance_month_absolute(dt, recurrence) ==
    CASE recurrence = "daily"   -> AddDays(dt, 1)
      [] recurrence = "weekly"  -> AddDays(dt, 7)
      [] recurrence = "monthly" -> [dt EXCEPT !.m = 1]

Advance(dt, recurrence) ==
    CASE recurrence = "daily"   -> AddDays(dt, 1)
      [] recurrence = "weekly"  -> AddDays(dt, 7)
      [] recurrence = "monthly" -> AddMonth(dt)

(* while next_due <= now: next_due += interval *)
RECURSIVE FutureCorrect(_, _, _)
FutureCorrect(next_due, now, recurrence) ==
    IF Instant(next_due) <= Instant(now)
    THEN FutureCorrect(Advance(next_due, recurrence), now, recurrence)
    ELSE next_due

Returned(v) == [kind |-> "return", value |-> v]
Raised(e) == [kind |-> "raise", exc |-> e]

(* calculate_next_due anchoring on completed_at before current_due *)
calculate_next_due_completed_first(current_due, recurrence, completed_at, now, cfg) ==
    IF recurrence = "none" THEN Returned(NoneDT)
    ELSE
      LET base_date == IF completed_at # NoneDT THEN completed_at
                       ELSE IF current_due # NoneDT THEN current_due
                       ELSE now
      IN IF recurrence \notin {"daily", "weekly", "monthly"}
         THEN (IF LogRaises(cfg, "WARNING") THEN Raised("TypeError")
               ELSE Returned(NoneDT))
         ELSE IF ~Comparable(Advance(base_date, recurrence), now)
         THEN Raised("TypeError")
         ELSE IF LogRaises(cfg, "INFO") THEN Raised("TypeError")
         ELSE Returned(FutureCorrect(Advance(base_date, recurrence), now, recurrence))

calculate_next_due(current_due, recurrence, completed_at, now, cfg) ==
    IF recurrence = "none" THEN Returned(NoneDT)
    ELSE
      LET base_date == IF current_due # NoneDT THEN current_due
                       ELSE IF completed_at # NoneDT THEN completed_at
                       ELSE now
      IN IF recurrence \notin {"daily", "weekly", "monthly"}
         THEN (IF LogRaises(cfg, "WARNING") THEN Raised("TypeError")
               ELSE Returned(NoneDT))
         ELSE IF ~Comparable(Advance(base_date, recurrence), now)
         THEN Raised("TypeError")
         ELSE IF LogRaises(cfg, "INFO") THEN Raised("TypeError")
         ELSE Returned(FutureCorrect(Advance(base_date, recurrence), now, recurrence))


-----------------------------------------------------------------------------
(* JSON values on the wire *)
Absent == "<absent>"

(* a due_date as it travels: absent, an ISO-8601 string (of a datetime,    *)
(* with a UTC suffix or without one), or a string that is no date          *)
NoDue == [fmt |-> "absent", dt |-> NoneDT, suffix |-> ""]
GarbageDue == [fmt |-> "garbage", dt |-> NoneDT, suffix |-> ""]
IsoString(dt, suffix) == [fmt |-> "iso", dt |-> [dt EXCEPT !.tz = "naive"], suffix |-> suffix]

(* datetime.isoformat(): an aware UTC datetime prints with +00:00 *)
isoformat(dt) == IsoString(dt, IF dt.tz = "aware" THEN "+00:00" ELSE "")

(* datetime.fromisoformat(s.replace("Z", "+00:00")) *)
fromisoformat(s) ==
    IF s.fmt # "iso" THEN Raised("ValueError")
    ELSE Returned([s.dt EXCEPT !.tz = IF s.suffix = "" THEN "naive" ELSE "aware"])

(* request.headers.get("Authorization", "").replace("Bearer ", "") *)
AuthHeaders == {"", "Bearer tok"}
Token(auth_header) == IF auth_header = "Bearer tok" THEN "tok" ELSE ""

-----------------------------------------------------------------------------
(* recurring-service/src/services/backend_client.py *)
CreateOutcomes == {"201", "400", "500", "timeout"}
NewTaskId == "new-1"

(* the creation request without the lineage pointer *)
CreateCall_no_lineage(token, title, description, priority, recurrence, due_date, parent_task_id) ==
    [kind |-> "create",
     authorization |-> <<"Bearer", token>>,
     json |-> [title |-> title, description |-> description, priority |-> priority,
               recurrence |-> recurrence, due_date |-> isoformat(due_date),
               parent_task_id |-> None]]

CreateCall(token, title, description, priority, recurrence, due_date, parent_task_id) ==
    [kind |-> "create",
     authorization |-> <<"Bearer", token>>,
     json |-> [title |-> title, description |-> description, priority |-> priority,
               recurrence |-> recurrence, due_date |-> isoformat(due_date),
               parent_task_id |-> parent_task_id]]

TagCall(token, task_id, tag) ==
    [kind |-> "tag", authorization |-> <<"Bearer", token>>, task_id |-> task_id, name |-> tag]

(* _add_tags: one POST per tag, in order; a POST that raises is logged with *)
(* logger.warning(..., task_id=..., tag=..., error=...)                     *)
RECURSIVE add_tags(_, _, _, _, _, _)
add_tags(token, task_id, tags, i, tagFail, cfg) ==
    IF i > Len(tags) THEN [kind |-> "return", calls |-> <<>>]
    ELSE IF i \in tagFail /\ LogRaises(cfg, "WARNING")
    THEN [kind |-> "raise", calls |-> <<TagCall(token, task_id, tags[i])>>]
    ELSE LET rest == add_tags(token, task_id, tags, i + 1, tagFail, cfg)
         IN [kind |-> rest.kind, calls |-> <<TagCall(token, task_id, tags[i])>> \o rest.calls]

(* BackendClient.create_task: the POST, raise_for_status, the tag POSTs;    *)
(* both except clauses log with logger.error(..., error=...) and re-raise   *)
create_task(token, title, description, priority, tags, due_date, recurrence, parent_task_id, env, cfg) ==
    LET post == CreateCall(token, title, description, priority, recurrence,
                           due_date, parent_task_id)
    IN IF env.create # "201"
       THEN [kind |-> "raise", calls |-> <<post>>, id |-> None]
       ELSE IF LogRaises(cfg, "INFO")
       THEN [kind |-> "raise", calls |-> <<post>>, id |-> None]
       ELSE IF Len(tags) = 0
       THEN [kind |-> "return", calls |-> <<post>>, id |-> NewTaskId]
       ELSE LET t == add_tags(token, NewTaskId, tags, 1, env.tagFail, cfg)
            IN [kind |-> t.kind, calls |-> <<post>> \o t.calls,
                id |-> IF t.kind = "return" THEN NewTaskId ELSE None]

-----------------------------------------------------------------------------
(* recurring-service/src/api/events.py *)
EventTypes == {"task.completed", "task.updated", "task.created", Absent}
Recurrences == {Absent, "none", "daily", "weekly", "monthly", "yearly"}
TagLists == {<<>>, <<"home">>, <<"home", "work">>}
Titles == {"pay rent"}
Descriptions == {None}
Priorities == {"high"}

NoTaskData == [kind |-> "absent", title |-> Absent, description |-> Absent,
               priority |-> Absent, recurrence |-> Absent, due_date |-> NoDue,
               tags |-> <<>>]
NullTaskData == [NoTaskData EXCEPT !.kind = "null"]

(* the request body: the payload itself, or a cloud-event envelope with the *)
(* payload (or null) under "data"                                           *)
Body(msg, wrapped) ==
    IF msg.kind = "notObject" THEN [shape |-> "notObject", hasData |-> FALSE, data |-> msg, top |-> msg]
    ELSE IF msg.kind = "nullData" \/ wrapped
    THEN [shape |-> "object", hasData |-> TRUE, data |-> msg,
          top |-> [msg EXCEPT !.kind = "envelope"]]
    ELSE [shape |-> "object", hasData |-> FALSE, data |-> msg, top |-> msg]

(* body.get("data", body) *)
Unwrap(body) == IF body.hasData THEN body.data ELSE body.top

Answer(http, status, calls, next_due) ==
    [http |-> http, status |-> status, calls |-> calls, next_due |-> next_due]

(* the outer except clause (lines 151-154): logger.error(..., error=str(e)), *)
(* then the FAILED dict; an exception that leaves the handler is answered    *)
(* with 500 by the framework                                                 *)
OuterExcept(calls, cfg) ==
    IF LogRaises(cfg, "ERROR")
    THEN Answer(500, "Internal Server Error", calls, NoneDT)
    ELSE Answer(200, "FAILED", calls, NoneDT)

(* the inner except clause (lines 142-149) *)
InnerExcept(calls, cfg) ==
    IF LogRaises(cfg, "ERROR") THEN OuterExcept(calls, cfg)
    ELSE Answer(200, "RETRY", calls, NoneDT)

(* the creation call made whether or not a credential is present *)
CreateNext_any_credential(data, task_data, recurrence, next_due, auth_header, env, cfg) ==
    LET r == create_task(Token(auth_header),
                         IF task_data.title = Absent THEN None ELSE task_data.title,
                         IF task_data.description = Absent THEN None
                         ELSE task_data.description,
                         IF task_data.priority = Absent THEN "medium"
                         ELSE task_data.priority,
                         task_data.tags, next_due, recurrence, data.task_id, env, cfg)
    IN IF r.kind = "raise" THEN InnerExcept(r.calls, cfg)
       ELSE IF LogRaises(cfg, "INFO") THEN InnerExcept(r.calls, cfg)
       ELSE Answer(200, "SUCCESS", r.calls, next_due)

(* lines 102-140: the credential, the creation call, the SUCCESS dict *)
CreateNext(data, task_data, recurrence, next_due, auth_header, env, cfg) ==
    LET token == Token(auth_header)
    IN IF token = ""
       THEN (IF LogRaises(cfg, "WARNING") THEN InnerExcept(<<>>, cfg)
             ELSE Answer(200, "SKIPPED", <<>>, next_due))
       ELSE LET r == create_task(token,
                                 IF task_data.title = Absent THEN None
                                 ELSE task_data.title,
                                 IF task_data.description = Absent THEN None
                                 ELSE task_data.description,
                                 IF task_data.priority = Absent THEN "medium"
                                 ELSE task_data.priority,
                                 task_data.tags, next_due, recurrence,
                                 data.task_id, env, cfg)
            IN IF r.kind = "raise" THEN InnerExcept(r.calls, cfg)
               ELSE IF LogRaises(cfg, "INFO") THEN InnerExcept(r.calls, cfg)
               ELSE Answer(200, "SUCCESS", r.calls, next_due)

(* handle_task_event without the test of the event kind *)
handle_task_event_any_kind(body, auth_header, env, now, cfg) ==
    IF body.shape # "object" THEN OuterExcept(<<>>, cfg)
    ELSE IF Unwrap(body).kind # "object" THEN OuterExcept(<<>>, cfg)
    ELSE
      LET data == Unwrap(body)
          event_type == data.event_type
          task_data == IF data.task_data.kind = "absent" THEN NoTaskData ELSE data.task_data
      IN IF task_data.kind = "null" THEN OuterExcept(<<>>, cfg)
         ELSE IF LogRaises(cfg, "INFO") THEN OuterExcept(<<>>, cfg)
         ELSE
           LET recurrence == IF task_data.recurrence = Absent THEN "none"
                             ELSE task_data.recurrence
           IN IF recurrence = "none"
              THEN (IF LogRaises(cfg, "DEBUG") THEN OuterExcept(<<>>, cfg)
                    ELSE Answer(200, "IGNORED", <<>>, NoneDT))
              ELSE
                LET parsed == IF task_data.due_date.fmt = "absent" THEN Returned(NoneDT)
                              ELSE fromisoformat(task_data.due_date)
                IN IF parsed.kind = "raise" THEN OuterExcept(<<>>, cfg)
                   ELSE
                     LET next == calculate_next_due(parsed.value, recurrence, now, now, cfg)
                     IN IF next.kind = "raise" THEN OuterExcept(<<>>, cfg)
                        ELSE IF next.value = NoneDT
                        THEN (IF LogRaises(cfg, "WARNING") THEN OuterExcept(<<>>, cfg)
                              ELSE Answer(200, "FAILED", <<>>, NoneDT))
                        ELSE CreateNext(data, task_data, recurrence, next.value,
                                        auth_header, env, cfg)

handle_task_event(body, auth_header, env, now, cfg) ==
    IF body.shape # "object" THEN OuterExcept(<<>>, cfg)
    ELSE IF Unwrap(body).kind # "object" THEN OuterExcept(<<>>, cfg)
    ELSE
      LET data == Unwrap(body)
          event_type == data.event_type
          task_data == IF data.task_data.kind = "absent" THEN NoTaskData ELSE data.task_data
      IN IF task_data.kind = "null" THEN OuterExcept(<<>>, cfg)
         ELSE IF LogRaises(cfg, "INFO") THEN OuterExcept(<<>>, cfg)
         ELSE IF event_type # "task.completed"
         THEN (IF LogRaises(cfg, "DEBUG") THEN OuterExcept(<<>>, cfg)
               ELSE Answer(200, "IGNORED", <<>>, NoneDT))
         ELSE
           LET recurrence == IF task_data.recurrence = Absent THEN "none"
                             ELSE task_data.recurrence
           IN IF recurrence = "none"
              THEN (IF LogRaises(cfg, "DEBUG") THEN OuterExcept(<<>>, cfg)
                    ELSE Answer(200, "IGNORED", <<>>, NoneDT))
              ELSE
                LET parsed == IF task_data.due_date.fmt = "absent" THEN Returned(NoneDT)
                              ELSE fromisoformat(task_data.due_date)
                IN IF parsed.kind = "raise" THEN OuterExcept(<<>>, cfg)
                   ELSE
                     LET next == calculate_next_due(parsed.value, recurrence, now, now, cfg)
                     IN IF next.kind = "raise" THEN OuterExcept(<<>>, cfg)
                        ELSE IF next.value = NoneDT
                        THEN (IF LogRaises(cfg, "WARNING") THEN OuterExcept(<<>>, cfg)
                              ELSE Answer(200, "FAILED", <<>>, NoneDT))
                        ELSE CreateNext(data, task_data, recurrence, next.value,
                                        auth_header, env, cfg)

-----------------------------------------------------------------------------
(* notification-service/src/handlers/reminder_handler.py *)
RequiredFields == <<"task_id", "title", "user_id">>

(* a due_at / remind_at value of a reminder payload is "<absent>", "iso"    *)
(* (an ISO string), "text" (another string) or "number" (no string at all) *)

(* _validate_event_data: every required field is a key with a truthy value *)
validate_event_data(event_data) ==
    \A i \in 1..Len(RequiredFields) :
        /\ RequiredFields[i] \in event_data.keys
        /\ event_data.fields[RequiredFields[i]] # ""

(* _send_notification: formats and prints the message; anything raised     *)
(* (str methods on a value that is no string) becomes success: False       *)
send_notification(task_id, title, due_at, remind_at, user_id) ==
    IF due_at = "number" \/ remind_at = "number"
    THEN [success |-> FALSE, message |-> "Notification sending failed"]
    ELSE [success |-> TRUE, message |-> "Notification sent successfully"]

Get(event_data, k) == IF k \in event_data.keys THEN event_data.fields[k] ELSE None

(* handle_reminder_event sending the notification before it validates *)
reminder_handler_send_first(event_data) ==
    IF event_data.kind # "object"
    THEN [status |-> "error", message |-> "Unexpected error", dispatched |-> 0]
    ELSE LET r == send_notification(Get(event_data, "task_id"), Get(event_data, "title"),
                                    IF "due_at" \in event_data.keys
                                    THEN event_data.fields["due_at"] ELSE "<absent>",
                                    IF "remind_at" \in event_data.keys
                                    THEN event_data.fields["remind_at"] ELSE "<absent>",
                                    Get(event_data, "user_id"))
         IN IF ~validate_event_data(event_data)
            THEN [status |-> "error", message |-> "Invalid reminder event data",
                  dispatched |-> 1]
            ELSE IF r.success
            THEN [status |-> "success", message |-> "Reminder notification sent",
                  dispatched |-> 1]
            ELSE [status |-> "error", message |-> "Failed to send notification",
                  dispatched |-> 1]

(* ReminderHandler.handle_reminder_event *)
reminder_handler(event_data) ==
    IF event_data.kind = "null"
    THEN [status |-> "error", message |-> "Unexpected error", dispatched |-> 0]
    ELSE IF event_data.kind # "object" \/ ~validate_event_data(event_data)
    THEN [status |-> "error", message |-> "Invalid reminder event data", dispatched |-> 0]
    ELSE LET r == send_notification(Get(event_data, "task_id"), Get(event_data, "title"),
                                    IF "due_at" \in event_data.keys
                                    THEN event_data.fields["due_at"] ELSE "<absent>",
                                    IF "remind_at" \in event_data.keys
                                    THEN event_data.fields["remind_at"] ELSE "<absent>",
                                    Get(event_data, "user_id"))
         IN IF r.success
            THEN [status |-> "success", message |-> "Reminder notification sent",
                  dispatched |-> 1]
            ELSE [status |-> "error", message |-> "Failed to send notification",
                  dispatched |-> 1]

(* notification-service/src/api/reminders.py: request.json() is handed to   *)
(* the handler as it is; status success is answered 200, anything else 500  *)
(* the endpoint answering 200 whatever the handler's status is *)
handle_reminder_event_ack(body) ==
    IF body.kind = "invalid"
    THEN [http |-> 500, status |-> "error",
          message |-> "Failed to process reminder event", dispatched |-> 0]
    ELSE LET result == reminder_handler(body)
         IN [http |-> 200,
             status |-> result.status, message |-> result.message,
             dispatched |-> result.dispatched]

handle_reminder_event(body) ==
    IF body.kind = "invalid"
    THEN [http |-> 500, status |-> "error",
          message |-> "Failed to process reminder event", dispatched |-> 0]
    ELSE LET result == reminder_handler(body)
         IN [http |-> IF result.status = "success" THEN 200 ELSE 500,
             status |-> result.status, message |-> result.message,
             dispatched |-> result.dispatched]

(* a JSON object with the given keys *)
Object(keys, fields) == [kind |-> "object", keys |-> keys, fields |-> fields]

(* the request body of a reminder delivery: the payload, or the payload     *)
(* under the "data" key of a cloud-event envelope                           *)
ReminderBody(p, shape) ==
    IF shape = "wrapped" /\ p.kind # "invalid"
    THEN [kind |-> "object", keys |-> {"data"}, fields |-> [k \in {"data"} |-> p]]
    ELSE p

(* notification-service/src/main.py: the routes of the application. The     *)
(* health and reminders routers are APIRouter() without a prefix and are    *)
(* included without one, so their paths are served as written               *)
NotifierRoutes ==
    {[method |-> "GET", path |-> "/health", endpoint |-> "health_check"],
     [method |-> "GET", path |-> "/ready", endpoint |-> "readiness_check"],
     [method |-> "POST", path |-> "/handle", endpoint |-> "handle_reminder_event"],
     [method |-> "GET", path |-> "/", endpoint |-> "root"],
     [method |-> "GET", path |-> "/dapr/subscribe", endpoint |-> "dapr_subscribe"]}

(* the endpoint the framework runs for a request: the route of that path   *)
(* and method, 405 for a served path with another method, 404 otherwise     *)
EndpointFor(method, path) ==
    IF \E r \in NotifierRoutes : r.method = method /\ r.path = path
    THEN (CHOOSE r \in NotifierRoutes : r.method = method /\ r.path = path).endpoint
    ELSE IF \E r \in NotifierRoutes : r.path = path THEN "405"
    ELSE "404"

(* GET /dapr/subscribe: the subscriptions the Notifier advertises *)
NoSubscription == [pubsubname |-> None, topic |-> None, route |-> None]
dapr_subscribe ==
    <<[pubsubname |-> "kafka-pubsub", topic |-> "reminders",
       route |-> "/api/reminders/handle"]>>

(* a POST of a reminder delivery to a path of the Notifier *)
PostToNotifier(path, body) ==
    IF EndpointFor("POST", path) = "handle_reminder_event" THEN handle_reminder_event(body)
    ELSE IF EndpointFor("POST", path) = "405"
    THEN [http |-> 405, status |-> None, message |-> "Method Not Allowed", dispatched |-> 0]
    ELSE [http |-> 404, status |-> None, message |-> "Not Found", dispatched |-> 0]

-----------------------------------------------------------------------------
(* backend/src/services/tasks.py: the committed rows are st; a session      *)
(* commit that fails (dbOk = FALSE) raises and leaves the rows as they were *)
(* a Task row: its owner, title, completion flag, linked tag names          *)
(* (TaskTag rows), remind_at and reminder_sent                              *)
NoRow == [user_id |-> None, title |-> None, is_completed |-> FALSE, tags |-> {},
          remind_at |-> NoneDT, reminder_sent |-> FALSE, priority |-> None]
Row(user_id, title, is_completed) ==
    [user_id |-> user_id, title |-> title, is_completed |-> is_completed, tags |-> {},
     remind_at |-> NoneDT, reminder_sent |-> FALSE, priority |-> "medium"]

(* _publish_task_event(task, user_id, event_type): the request to publish,  *)
(* with the task as the session holds it and the row committed at that time *)
publish_task_event(event_type, task_id, user_id, task, db) ==
    [event_type |-> event_type, task_id |-> task_id, user_id |-> user_id,
     task_data |-> task, db |-> db]

(* line 663, `from services.events import event_publisher`, outside any try: *)
(* it runs services/events/__init__.py and with it publisher.py line 15,     *)
(* `from ...models.task import Task`, a relative import that leaves the      *)
(* top-level package services: "ImportError: attempted relative import       *)
(* beyond top-level package", on every call (a failed import is not cached)  *)
import_event_publisher == Raised("ImportError")

(* what _publish_task_event hands to the ThreadPoolExecutor (lines 665-675): *)
(* nothing when the import raised, else the one run_async_publish job        *)
executor_submit(ev) == IF import_event_publisher.kind = "raise" THEN <<>> ELSE <<ev>>

(* the outcome of a handler: the rows, the calls of _publish_task_event, the *)
(* jobs submitted to the executor, the HTTP result and the exception raised  *)
Outcome(st, events, jobs, result, exc) ==
    [store |-> st, events |-> events, jobs |-> jobs, result |-> result, exc |-> exc]

(* the statements after the call of _publish_task_event run only when it     *)
(* returns; an exception it raises leaves the handler (answered 500)         *)
Published(st_raise, st_return, ev) ==
    IF import_event_publisher.kind = "raise"
    THEN Outcome(st_raise, <<ev>>, executor_submit(ev), "500", import_event_publisher.exc)
    ELSE Outcome(st_return, <<ev>>, executor_submit(ev), "ok", None)

(* get_task_by_id selecting by Task.id alone *)
Owned_any_user(st, task_id, user_id) == st[task_id] # NoRow

(* get_task_by_id: the row of that id owned by that user, else 404 *)
Owned(st, task_id, user_id) == st[task_id] # NoRow /\ st[task_id].user_id = user_id

(* a reminder time as text: parse_natural_date, else datetime.fromisoformat *)
(* of the text with Z replaced; None when both fail (ValueError)            *)
ParseReminder(remind_at) ==
    CASE remind_at = "tomorrow" -> DT(2025, 1, 9, 0, "aware")
      [] remind_at = "2025-01-10T09:00:00Z" -> DT(2025, 1, 10, 9, "aware")
      [] OTHER -> NoneDT

(* Priority(priority.lower()): the member, None for a ValueError *)
ParsePriority(priority) ==
    CASE priority = "High" -> "high"
      [] priority \in {"low", "medium", "high"} -> priority
      [] OTHER -> None

(* create_task: the validations in their order (400), then the row, the     *)
(* commit and the publish request                                           *)
TasksService_create_task(st, new_id, user_id, title, priority, remind_at, dbOk) ==
    IF title = "" THEN Outcome(st, <<>>, <<>>, "400", "HTTPException")
    ELSE IF priority # None /\ ParsePriority(priority) = None
    THEN Outcome(st, <<>>, <<>>, "400", "HTTPException")
    ELSE IF remind_at \notin {None, ""} /\ ParseReminder(remind_at) = NoneDT
    THEN Outcome(st, <<>>, <<>>, "400", "HTTPException")
    ELSE IF ~dbOk THEN Outcome(st, <<>>, <<>>, "500", "OperationalError")
    ELSE LET task == [Row(user_id, title, FALSE) EXCEPT
                         !.priority = IF priority = None THEN "medium"
                                      ELSE ParsePriority(priority),
                         !.remind_at = IF remind_at \in {None, ""} THEN NoneDT
                                       ELSE ParseReminder(remind_at)]
             committed == [st EXCEPT ![new_id] = task]
         IN Published(committed, committed,
                      publish_task_event("task.created", new_id, user_id, task,
                                         committed[new_id]))

(* update_task, lines 358-380: the title and the completion                 *)
(* flag written to the task object                                          *)
WithTitleAndFlag(row, title, is_completed) ==
    [row EXCEPT !.title = IF title = None THEN @ ELSE title,
                !.is_completed = IF is_completed = None THEN @ ELSE is_completed = "true"]

(* update_task, lines 383-425: the priority and the reminder time written   *)
(* to the task object; a supplied remind_at resets reminder_sent            *)
WithPriorityAndReminder(row, priority, remind_at) ==
    [row EXCEPT !.priority = IF priority = None THEN @ ELSE ParsePriority(priority),
                !.remind_at = IF remind_at = None THEN @
                              ELSE IF remind_at = "" THEN NoneDT
                              ELSE ParseReminder(remind_at),
                !.reminder_sent = IF remind_at = None THEN @ ELSE FALSE]

(* a supplied priority or reminder time that cannot be parsed *)
BadPriorityOrReminder(priority, remind_at) ==
    \/ priority # None /\ ParsePriority(priority) = None
    \/ remind_at \notin {None, ""} /\ ParseReminder(remind_at) = NoneDT

(* update_task with the publish requested before session.commit() *)
update_task_publish_first(st, task_id, user_id, title, is_completed, priority, remind_at, dbOk) ==
    IF ~Owned(st, task_id, user_id) THEN Outcome(st, <<>>, <<>>, "404", "HTTPException")
    ELSE IF title = "" THEN Outcome(st, <<>>, <<>>, "400", "HTTPException")
    ELSE IF BadPriorityOrReminder(priority, remind_at)
    THEN Outcome(st, <<>>, <<>>, "400", "HTTPException")
    ELSE LET was_completed == st[task_id].is_completed
             task == WithPriorityAndReminder(
                         WithTitleAndFlag(st[task_id], title, is_completed),
                         priority, remind_at)
             event_type == IF is_completed = "true" /\ ~was_completed
                           THEN "task.completed" ELSE "task.updated"
             ev == publish_task_event(event_type, task_id, user_id, task, st[task_id])
         IN IF ~dbOk /\ import_event_publisher.kind # "raise"
            THEN Outcome(st, <<ev>>, executor_submit(ev), "500", "OperationalError")
            ELSE Published(st, [st EXCEPT ![task_id] = task], ev)

(* update_task committing the title and the completion flag before the     *)
(* later fields are validated                                               *)
update_task_commit_early(st, task_id, user_id, title, is_completed, priority, remind_at, dbOk) ==
    IF ~Owned(st, task_id, user_id) THEN Outcome(st, <<>>, <<>>, "404", "HTTPException")
    ELSE IF title = "" THEN Outcome(st, <<>>, <<>>, "400", "HTTPException")
    ELSE IF BadPriorityOrReminder(priority, remind_at)
    THEN Outcome([st EXCEPT ![task_id] = WithTitleAndFlag(@, title, is_completed)],
                 <<>>, <<>>, "400", "HTTPException")
    ELSE IF ~dbOk THEN Outcome(st, <<>>, <<>>, "500", "OperationalError")
    ELSE LET was_completed == st[task_id].is_completed
             task == WithPriorityAndReminder(
                         WithTitleAndFlag(st[task_id], title, is_completed),
                         priority, remind_at)
             committed == [st EXCEPT ![task_id] = task]
             event_type == IF is_completed = "true" /\ ~was_completed
                           THEN "task.completed" ELSE "task.updated"
         IN Published(committed, committed,
                      publish_task_event(event_type, task_id, user_id, task,
                                         committed[task_id]))

(* update_task: get_task_by_id (404), the fields validated and written to   *)
(* the task object in their order (400 leaves the session uncommitted),     *)
(* then the commit and the publish request                                  *)
TasksService_update_task(st, task_id, user_id, title, is_completed, priority, remind_at, dbOk) ==
    IF ~Owned(st, task_id, user_id) THEN Outcome(st, <<>>, <<>>, "404", "HTTPException")
    ELSE IF title = "" THEN Outcome(st, <<>>, <<>>, "400", "HTTPException")
    ELSE IF BadPriorityOrReminder(priority, remind_at)
    THEN Outcome(st, <<>>, <<>>, "400", "HTTPException")
    ELSE IF ~dbOk THEN Outcome(st, <<>>, <<>>, "500", "OperationalError")
    ELSE LET was_completed == st[task_id].is_completed
             task == WithPriorityAndReminder(
                         WithTitleAndFlag(st[task_id], title, is_completed),
                         priority, remind_at)
             committed == [st EXCEPT ![task_id] = task]
             event_type == IF is_completed = "true" /\ ~was_completed
                           THEN "task.completed" ELSE "task.updated"
         IN Published(committed, committed,
                      publish_task_event(event_type, task_id, user_id, task,
                                         committed[task_id]))

TasksService_toggle_task_completion(st, task_id, user_id, dbOk) ==
    IF ~Owned(st, task_id, user_id) THEN Outcome(st, <<>>, <<>>, "404", "HTTPException")
    ELSE IF ~dbOk THEN Outcome(st, <<>>, <<>>, "500", "OperationalError")
    ELSE LET task == [st[task_id] EXCEPT !.is_completed = ~st[task_id].is_completed]
             committed == [st EXCEPT ![task_id] = task]
             event_type == IF task.is_completed THEN "task.completed" ELSE "task.updated"
         IN Published(committed, committed,
                      publish_task_event(event_type, task_id, user_id, task,
                                         committed[task_id]))

(* delete_task: "Publish delete event before deleting", then delete, commit *)
TasksService_delete_task(st, task_id, user_id, dbOk) ==
    IF ~Owned(st, task_id, user_id) THEN Outcome(st, <<>>, <<>>, "404", "HTTPException")
    ELSE LET ev == publish_task_event("task.deleted", task_id, user_id,
                                      st[task_id], st[task_id])
         IN IF ~dbOk /\ import_event_publisher.kind # "raise"
            THEN Outcome(st, <<ev>>, executor_submit(ev), "500", "OperationalError")
            ELSE Published(st, [st EXCEPT ![task_id] = NoRow], ev)

(* api get_task: TasksService.get_task_by_id and nothing else *)
TasksService_get_task_by_id(st, task_id, user_id) ==
    IF ~Owned(st, task_id, user_id) THEN Outcome(st, <<>>, <<>>, "404", "HTTPException")
    ELSE Outcome(st, <<>>, <<>>, "ok", None)

(* tag_name.lower().strip() *)
lower_strip(tag_name) ==
    CASE tag_name = "Home " -> "home"
      [] tag_name = " " -> ""
      [] OTHER -> tag_name

(* _add_tag_to_task: the Tag rows of the user after it ("Find or create tag") *)
TagRowsAfterAdd(rows, st, task_id, user_id, tag_name) ==
    IF Owned(st, task_id, user_id) /\ lower_strip(tag_name) # ""
    THEN [rows EXCEPT ![user_id] = @ \cup {lower_strip(tag_name)}]
    ELSE rows

(* add_tag_to_task: get_task_by_id, then the TaskTag link unless it exists *)
TasksService_add_tag_to_task(st, task_id, user_id, tag_name) ==
    IF ~Owned(st, task_id, user_id) THEN Outcome(st, <<>>, <<>>, "404", "HTTPException")
    ELSE IF lower_strip(tag_name) = "" THEN Outcome(st, <<>>, <<>>, "ok", None)
    ELSE Outcome([st EXCEPT ![task_id].tags = @ \cup {lower_strip(tag_name)}],
                 <<>>, <<>>, "ok", None)

(* remove_tag_from_task: get_task_by_id, then the link of the user's Tag of *)
(* that name is deleted if both exist                                       *)
TasksService_remove_tag_from_task(rows, st, task_id, user_id, tag_name) ==
    IF ~Owned(st, task_id, user_id) THEN Outcome(st, <<>>, <<>>, "404", "HTTPException")
    ELSE IF lower_strip(tag_name) \in rows[user_id]
    THEN Outcome([st EXCEPT ![task_id].tags = @ \ {lower_strip(tag_name)}],
                 <<>>, <<>>, "ok", None)
    ELSE Outcome(st, <<>>, <<>>, "ok", None)

(* set_reminder leaving reminder_sent as it is                              *)
set_reminder_keep_sent(st, task_id, user_id, remind_at, dbOk) ==
    IF ~Owned(st, task_id, user_id) THEN Outcome(st, <<>>, <<>>, "404", "HTTPException")
    ELSE IF ParseReminder(remind_at) = NoneDT
    THEN Outcome(st, <<>>, <<>>, "400", "HTTPException")
    ELSE IF ~dbOk THEN Outcome(st, <<>>, <<>>, "500", "OperationalError")
    ELSE Outcome([st EXCEPT ![task_id].remind_at = ParseReminder(remind_at)],
                 <<>>, <<>>, "ok", None)

(* set_reminder announcing the change as task.updated after its commit      *)
set_reminder_announced(st, task_id, user_id, remind_at, dbOk) ==
    IF ~Owned(st, task_id, user_id) THEN Outcome(st, <<>>, <<>>, "404", "HTTPException")
    ELSE IF ParseReminder(remind_at) = NoneDT
    THEN Outcome(st, <<>>, <<>>, "400", "HTTPException")
    ELSE IF ~dbOk THEN Outcome(st, <<>>, <<>>, "500", "OperationalError")
    ELSE LET committed == [st EXCEPT ![task_id].remind_at = ParseReminder(remind_at),
                                     ![task_id].reminder_sent = FALSE]
         IN Published(committed, committed,
                      publish_task_event("task.updated", task_id, user_id,
                                         committed[task_id], committed[task_id]))

(* set_reminder: get_task_by_id, parse (400 when unparseable), then          *)
(* remind_at, reminder_sent = False, commit                                  *)
TasksService_set_reminder(st, task_id, user_id, remind_at, dbOk) ==
    IF ~Owned(st, task_id, user_id) THEN Outcome(st, <<>>, <<>>, "404", "HTTPException")
    ELSE IF ParseReminder(remind_at) = NoneDT
    THEN Outcome(st, <<>>, <<>>, "400", "HTTPException")
    ELSE IF ~dbOk THEN Outcome(st, <<>>, <<>>, "500", "OperationalError")
    ELSE Outcome([st EXCEPT ![task_id].remind_at = ParseReminder(remind_at),
                            ![task_id].reminder_sent = FALSE],
                 <<>>, <<>>, "ok", None)

-----------------------------------------------------------------------------
(* backend/src/services/events/publisher.py *)

(* what client.post(...) followed by response.raise_for_status() does: a    *)
(* 2xx answer, a non-2xx answer (httpx.HTTPStatusError), no connection      *)
(* (httpx.ConnectError), no answer in 30 s (httpx.TimeoutException), or an  *)
(* error that is no httpx.HTTPError (RuntimeError of a closed event loop)   *)
GatewayOutcomes == {"204", "500", "ConnectError", "TimeoutException", "RuntimeError"}

(* the Task handed to the publisher: tags is the relationship, whose load    *)
(* may raise once the request's session is gone                              *)
TagsOf(load, names) == [load |-> load, names |-> names]

PublishReturn(value, posts) == [kind |-> "return", value |-> value, posts |-> posts]

PublishPost(topic, json) == [topic |-> topic, json |-> json]

(* a UUID, and str(UUID) as model_dump(mode="json") writes it *)
Uuid(hex) == [uuid |-> hex]
NoUuid == [uuid |-> None]
UuidStr(u) == u.uuid

(* the JSON encoding of an optional datetime (schemas.py lines 28-32): null, *)
(* or the ISO string                                                         *)
NullDate == [fmt |-> "null", dt |-> NoneDT, suffix |-> ""]
JsonDate(dt) == IF dt = NoneDT THEN NullDate ELSE isoformat(dt)

(* the task_data object of the event, every datetime written without its    *)
(* UTC offset                                                               *)
TaskEventData_local_dates(task) ==
    [id |-> UuidStr(task.id), title |-> task.title, description |-> task.description,
     is_completed |-> task.is_completed, priority |-> task.priority,
     due_date |-> IF task.due_date = NoneDT THEN NullDate
                  ELSE IsoString(task.due_date, ""),
     remind_at |-> IF task.remind_at = NoneDT THEN NullDate
                   ELSE IsoString(task.remind_at, ""),
     recurrence |-> task.recurrence,
     parent_task_id |-> UuidStr(task.parent_task_id), tags |-> task.tags.names,
     created_at |-> IsoString(task.created_at, ""),
     updated_at |-> IsoString(task.updated_at, "")]

(* TaskEventData(...), lines 82-95, as model_dump(mode="json") writes it *)
TaskEventData(task) ==
    [id |-> UuidStr(task.id), title |-> task.title, description |-> task.description,
     is_completed |-> task.is_completed, priority |-> task.priority,
     due_date |-> JsonDate(task.due_date), remind_at |-> JsonDate(task.remind_at),
     recurrence |-> task.recurrence,
     parent_task_id |-> UuidStr(task.parent_task_id), tags |-> task.tags.names,
     created_at |-> JsonDate(task.created_at), updated_at |-> JsonDate(task.updated_at)]

(* the event with the parent's id in the place of the task's id *)
TaskEventOf_parent_id(event_type, task, user_id) ==
    IF task.tags.load # "ok" THEN Raised(task.tags.load)
    ELSE Returned([event_type |-> event_type, task_id |-> UuidStr(task.parent_task_id),
                   task_data |-> TaskEventData(task),
                   user_id |-> user_id])

(* lines 79-103: the tag names, TaskEventData(...) and TaskEvent(...) *)
TaskEventOf(event_type, task, user_id) ==
    IF task.tags.load # "ok" THEN Raised(task.tags.load)
    ELSE Returned([event_type |-> event_type, task_id |-> UuidStr(task.id),
                   task_data |-> TaskEventData(task),
                   user_id |-> user_id])

(* a ReminderEvent whose remind_at is optional *)
ReminderEventOf_optional(task, user_id) ==
    Returned([task_id |-> UuidStr(task.id), title |-> task.title,
              due_at |-> JsonDate(task.due_date),
              remind_at |-> JsonDate(task.remind_at),
              user_id |-> user_id])

(* ReminderEvent(...), lines 150-156: remind_at is a required datetime *)
ReminderEventOf(task, user_id) ==
    IF task.remind_at = NoneDT THEN Raised("ValidationError")
    ELSE Returned([task_id |-> UuidStr(task.id), title |-> task.title,
                   due_at |-> JsonDate(task.due_date),
                   remind_at |-> JsonDate(task.remind_at),
                   user_id |-> user_id])

(* publish_task_event with the except clauses re-raising what they caught *)
publish_task_event_reraise(enabled, event_type, task, user_id, gateway) ==
    IF ~enabled THEN PublishReturn(TRUE, <<>>)
    ELSE LET event == TaskEventOf(event_type, task, user_id)
         IN IF event.kind = "raise" THEN [kind |-> "raise", exc |-> event.exc, posts |-> <<>>]
            ELSE IF gateway = "204"
            THEN PublishReturn(TRUE, <<PublishPost("task-events", event.value)>>)
            ELSE [kind |-> "raise", exc |-> gateway,
                  posts |-> <<PublishPost("task-events", event.value)>>]

EventPublisher_publish_task_event(enabled, event_type, task, user_id, gateway) ==
    IF ~enabled THEN PublishReturn(TRUE, <<>>)
    ELSE LET event == TaskEventOf(event_type, task, user_id)
         IN IF event.kind = "raise" THEN PublishReturn(FALSE, <<>>)
            ELSE PublishReturn(gateway = "204", <<PublishPost("task-events", event.value)>>)

(* publish_reminder_event sending although publishing is disabled *)
publish_reminder_event_always(enabled, task, user_id, gateway) ==
    LET event == ReminderEventOf(task, user_id)
    IN IF event.kind = "raise" THEN PublishReturn(~enabled, <<>>)
       ELSE PublishReturn(~enabled \/ gateway = "204",
                          <<PublishPost("reminders", event.value)>>)

EventPublisher_publish_reminder_event(enabled, task, user_id, gateway) ==
    IF ~enabled THEN PublishReturn(TRUE, <<>>)
    ELSE LET event == ReminderEventOf(task, user_id)
         IN IF event.kind = "raise" THEN PublishReturn(FALSE, <<>>)
            ELSE PublishReturn(gateway = "204", <<PublishPost("reminders", event.value)>>)

(* recurring-service/src/api/events.py lines 17-30, class TaskData: the      *)
(* task_data object read back, its ISO strings parsed to datetimes           *)
ReadDate(j) == IF j = NullDate THEN NoneDT ELSE fromisoformat(j).value

TaskData(j) ==
    [id |-> j.id, title |-> j.title, description |-> j.description,
     is_completed |-> j.is_completed, priority |-> j.priority,
     due_date |-> ReadDate(j.due_date), remind_at |-> ReadDate(j.remind_at),
     recurrence |-> j.recurrence, parent_task_id |-> j.parent_task_id,
     tags |-> j.tags, created_at |-> ReadDate(j.created_at),
     updated_at |-> ReadDate(j.updated_at)]

-----------------------------------------------------------------------------
(* Inputs *)
Clock == DT(2025, 1, 8, 0, "naive")
CalcClocks == {Clock, DT(2025, 1, 8, 1, "naive"), DT(2025, 3, 31, 0, "naive")}
Days == {<<2024, 12, 31>>, <<2025, 1, 1>>, <<2025, 1, 7>>, <<2025, 1, 8>>, <<2025, 1, 31>>}
DueDates == {DT(x[1], x[2], x[3], t, tz) : x \in Days, t \in TimeSlots, tz \in {"naive", "aware"}}
PastDues(now) == {dd \in DueDates : Instant(dd) < Instant(now)}
CalcRecurrences == {"none", "daily", "weekly", "monthly", "yearly"}

CalcInputs ==
    [current_due : DueDates \cup {NoneDT}, recurrence : CalcRecurrences,
     completed_at : {NoneDT, DT(2025, 1, 7, 1, "naive")}, now : CalcClocks]

WireDues == {NoDue, GarbageDue, IsoString(DT(2025, 1, 1, 0, "naive"), ""),
             IsoString(DT(2025, 1, 1, 0, "naive"), "Z")}

TaskDatas ==
    {NoTaskData, NullTaskData} \cup
    [kind : {"object"}, title : Titles, description : Descriptions,
     priority : Priorities, recurrence : Recurrences, due_date : WireDues,
     tags : TagLists]

NoMessage == [kind |-> "none", event_type |-> Absent, task_id |-> Absent,
              user_id |-> Absent, task_data |-> NoTaskData, auth |-> ""]
Messages ==
    {[NoMessage EXCEPT !.kind = "notObject"], [NoMessage EXCEPT !.kind = "nullData"]} \cup
    [kind : {"object"}, event_type : EventTypes, task_id : {"task-1"},
     user_id : {"user-1"}, task_data : TaskDatas, auth : AuthHeaders]

Envs(msg) == [create : CreateOutcomes, tagFail : SUBSET (1..Len(msg.task_data.tags))]

CountKind(calls, k) == Cardinality({i \in 1..Len(calls) : calls[i].kind = k})

ReminderKeys == {"task_id", "title", "user_id", "due_at", "remind_at"}
ReminderAllowed(k) == IF k \in {"due_at", "remind_at"} THEN {"iso", "text", "number"}
                      ELSE {"", "v"}
ReminderPayloads ==
    {[kind |-> "invalid", keys |-> {}, fields |-> <<>>],
     [kind |-> "null", keys |-> {}, fields |-> <<>>],
     [kind |-> "array", keys |-> {}, fields |-> <<>>]} \cup
    UNION {{Object(K, f) : f \in {g \in [K -> {"", "v", "iso", "text", "number"}] :
                                   \A k \in K : g[k] \in ReminderAllowed(k)}} :
           K \in SUBSET ReminderKeys}
NoReminder == [kind |-> "none", keys |-> {}, fields |-> <<>>]
Shapes == {"raw", "wrapped"}

TaskIds == {"task-1"}
Users == {"user-1", "user-2"}
TaskTitles == {"", "a", "b"}
TitleUpdates == {None, "", "b"}
TagNames == {" ", "Home "}
RemindTexts == {"tomorrow", "2025-01-10T09:00:00Z", "soonish"}
PriorityTexts == {None, "urgent"}
RemindCreates == {None, "tomorrow", "soonish"}
RemindUpdates == {None, "", "tomorrow", "soonish"}
CompletedUpdates == {None, "true", "false"}
NoOp == [op |-> "none", task_id |-> None, user_id |-> None, remind_at |-> None, was_sent |-> FALSE, result |-> None, exc |-> None]

PubEventTypes == {"task.created", "task.updated", "task.completed", "task.deleted"}
PubTasks ==
    [id : {Uuid("task-1")}, title : {"a"}, description : {None, "d"},
     is_completed : BOOLEAN, priority : {"medium"},
     due_date : {NoneDT, DT(2025, 1, 1, 0, "aware"), DT(2025, 1, 1, 0, "naive")},
     remind_at : {NoneDT, DT(2025, 1, 1, 1, "aware")},
     recurrence : {"none", "weekly"},
     parent_task_id : {NoUuid, Uuid("task-0")},
     tags : {TagsOf("ok", <<>>), TagsOf("ok", <<"home">>),
             TagsOf("DetachedInstanceError", <<>>)},
     created_at : {DT(2024, 12, 31, 0, "aware")},
     updated_at : {DT(2024, 12, 31, 1, "aware")}]
PubInputs ==
    [fn : {"publish_task_event", "publish_reminder_event"}, enabled : BOOLEAN,
     event_type : PubEventTypes, task : PubTasks, user_id : {"user-1"},
     gateway : GatewayOutcomes]
NoPubInput == [fn |-> "none"]

-----------------------------------------------------------------------------
(* State machine *)
InitCalc == calcIn = [current_due |-> NoneDT, recurrence |-> "none",
                      completed_at |-> NoneDT, now |-> Clock]
            /\ calcOut = NoResult
InitReact == bus = NoMessage /\ nDeliveries = 0 /\ nCreatePosts = 0
             /\ nTagPosts = 0 /\ last = NoResult /\ allAccepted = TRUE
             /\ answerOf = <<>>
InitNotif == reminder = NoReminder /\ notifSeen = [sh \in Shapes |-> NoResult]
             /\ nReminders = 0 /\ nDispatch = 0 /\ subscription = NoSubscription
InitTasks == store = [id \in TaskIds |-> NoRow] /\ published = <<>> /\ submitted = <<>>
             /\ tagRows = [u \in Users |-> {}] /\ nOps = 0
             /\ lastOp = NoOp
InitPub == pubIn = NoPubInput /\ pubOut = NoResult

(* one call of calculate_next_due *)
CalcCall ==
    /\ calcOut = NoResult
    /\ calcOut' = calculate_next_due(calcIn.current_due, calcIn.recurrence,
                                     calcIn.completed_at, calcIn.now, logLevel)
    /\ UNCHANGED <<logLevel, calcIn, reactVars, notifVars, taskVars, pubVars>>

CalcInit ==
    /\ logLevel \in LogLevels /\ calcIn \in CalcInputs /\ calcOut = NoResult
    /\ InitReact /\ InitNotif /\ InitTasks /\ InitPub

SpecCalc == CalcInit /\ [][CalcCall]_vars

(* calculate_next_due statement by statement: calcOut holds the candidate   *)
(* next_due while the loop of lines 47-53 runs, and the number of times its *)
(* body has run                                                             *)
InLoop(next_due, steps) == [kind |-> "loop", value |-> next_due, exc |-> None, steps |-> steps]
LoopReturned(v, steps) == [kind |-> "return", value |-> v, exc |-> None, steps |-> steps]
LoopRaised(e, steps) == [kind |-> "raise", value |-> NoneDT, exc |-> e, steps |-> steps]

(* lines 29-46: the base date and the first candidate *)
EnterLoop ==
    /\ calcOut = NoResult
    /\ LET base_date == IF calcIn.current_due # NoneDT THEN calcIn.current_due
                        ELSE IF calcIn.completed_at # NoneDT THEN calcIn.completed_at
                        ELSE calcIn.now
       IN calcOut' =
            IF calcIn.recurrence = "none" THEN LoopReturned(NoneDT, 0)
            ELSE IF calcIn.recurrence \notin {"daily", "weekly", "monthly"}
            THEN (IF LogRaises(logLevel, "WARNING") THEN LoopRaised("TypeError", 0)
                  ELSE LoopReturned(NoneDT, 0))
            ELSE InLoop(Advance(base_date, calcIn.recurrence), 0)
    /\ UNCHANGED <<logLevel, calcIn, reactVars, notifVars, taskVars, pubVars>>

(* line 47 true, lines 48-53: the candidate moves on by one interval; the   *)
(* comparison of an aware candidate with the naive now raises               *)
LoopStep ==
    /\ calcOut # NoResult /\ calcOut.kind = "loop"
    /\ calcOut' =
         IF ~Comparable(calcOut.value, calcIn.now) THEN LoopRaised("TypeError", calcOut.steps)
         ELSE InLoop(Advance(calcOut.value, calcIn.recurrence),
                     IF calcOut.steps < MaxSteps THEN calcOut.steps + 1 ELSE calcOut.steps)
    /\ ~Comparable(calcOut.value, calcIn.now) \/ Instant(calcOut.value) <= Instant(calcIn.now)
    /\ UNCHANGED <<logLevel, calcIn, reactVars, notifVars, taskVars, pubVars>>

(* line 47 false, lines 55-62: the log call and the return *)
LoopExit ==
    /\ calcOut # NoResult /\ calcOut.kind = "loop"
    /\ Comparable(calcOut.value, calcIn.now)
    /\ Instant(calcOut.value) > Instant(calcIn.now)
    /\ calcOut' = IF LogRaises(logLevel, "INFO") THEN LoopRaised("TypeError", calcOut.steps)
                  ELSE LoopReturned(calcOut.value, calcOut.steps)
    /\ UNCHANGED <<logLevel, calcIn, reactVars, notifVars, taskVars, pubVars>>

NextLoop == EnterLoop \/ LoopStep \/ LoopExit

LoopInit ==
    /\ logLevel \in LogLevels /\ calcIn \in CalcInputs /\ calcOut = NoResult
    /\ InitReact /\ InitNotif /\ InitTasks /\ InitPub

(* the interpreter goes on to the next statement *)
SpecLoop == LoopInit /\ [][NextLoop]_vars /\ WF_vars(NextLoop)

(* the owning service's event reaches the task-events topic *)
Publish(msg) ==
    /\ bus = NoMessage
    /\ bus' = msg
    /\ UNCHANGED <<logLevel, calcVars, nDeliveries, nCreatePosts, nTagPosts, last,
                   allAccepted, answerOf, notifVars, taskVars, pubVars>>

(* the gateway POSTs the held message to /api/events/task; it may deliver  *)
(* the same message again at any time (at-least-once)                       *)
Deliver(wrapped, env) ==
    /\ bus # NoMessage
    /\ nDeliveries < MaxDeliveries
    /\ LET ans == handle_task_event(Body(bus, wrapped), bus.auth, env, Clock, logLevel)
       IN /\ last' = [kind |-> "answered", wrapped |-> wrapped, env |-> env, ans |-> ans]
          /\ nCreatePosts' = nCreatePosts + CountKind(ans.calls, "create")
          /\ nTagPosts' = nTagPosts + CountKind(ans.calls, "tag")
    /\ nDeliveries' = nDeliveries + 1
    /\ allAccepted' = (allAccepted /\ env.create = "201" /\ env.tagFail = {})
    /\ UNCHANGED <<logLevel, calcVars, bus, answerOf, notifVars, taskVars, pubVars>>

NextReact ==
    \/ \E msg \in Messages : Publish(msg)
    \/ \E wrapped \in BOOLEAN : \E env \in Envs(bus) : Deliver(wrapped, env)

ReactInit == logLevel \in LogLevels /\ InitCalc /\ InitReact /\ InitNotif /\ InitTasks /\ InitPub

SpecReact == ReactInit /\ [][NextReact]_vars

(* a reminder-due event reaches the reminders topic *)
PublishReminder(p) ==
    /\ reminder = NoReminder
    /\ reminder' = p
    /\ UNCHANGED <<logLevel, calcVars, reactVars, notifSeen, nReminders, nDispatch,
                   subscription, taskVars, pubVars>>

(* the gateway POSTs the held payload to the Notifier, raw or wrapped *)
DeliverReminder(shape) ==
    /\ reminder # NoReminder
    /\ nReminders < MaxDeliveries
    /\ LET ans == handle_reminder_event(ReminderBody(reminder, shape))
       IN /\ notifSeen' = [notifSeen EXCEPT ![shape] = [kind |-> "answered", ans |-> ans]]
          /\ nDispatch' = nDispatch + ans.dispatched
    /\ nReminders' = nReminders + 1
    /\ UNCHANGED <<logLevel, calcVars, reactVars, reminder, subscription, taskVars, pubVars>>

NextNotif ==
    \/ \E p \in ReminderPayloads : PublishReminder(p)
    \/ \E shape \in Shapes : DeliverReminder(shape)

(* the gateway reads the Notifier's subscriptions when it starts *)
ReadSubscriptions ==
    /\ subscription = NoSubscription
    /\ EndpointFor("GET", "/dapr/subscribe") = "dapr_subscribe"
    /\ \E i \in 1..Len(dapr_subscribe) :
          /\ dapr_subscribe[i].topic = "reminders"
          /\ subscription' = dapr_subscribe[i]
    /\ UNCHANGED <<logLevel, calcVars, reactVars, reminder, notifSeen, nReminders, nDispatch,
                   taskVars, pubVars>>

(* the gateway POSTs the held payload to the route the subscription names *)
DeliverToRoute(shape) ==
    /\ subscription # NoSubscription
    /\ reminder # NoReminder
    /\ nReminders < MaxDeliveries
    /\ LET ans == PostToNotifier(subscription.route, ReminderBody(reminder, shape))
       IN /\ notifSeen' = [notifSeen EXCEPT ![shape] = [kind |-> "answered", ans |-> ans]]
          /\ nDispatch' = nDispatch + ans.dispatched
    /\ nReminders' = nReminders + 1
    /\ UNCHANGED <<logLevel, calcVars, reactVars, reminder, subscription, taskVars, pubVars>>

NextRoute ==
    \/ ReadSubscriptions
    \/ \E p \in ReminderPayloads : PublishReminder(p)
    \/ \E shape \in Shapes : DeliverToRoute(shape)

NotifInit == logLevel = "INFO" /\ InitCalc /\ InitReact /\ InitNotif /\ InitTasks /\ InitPub

SpecNotif == NotifInit /\ [][NextNotif]_vars

SpecRoute == NotifInit /\ [][NextRoute]_vars

(* one request to the owning service's task API, handled to its end; lastOp *)
(* keeps the request, the reminder_sent flag it found, and its outcome      *)
Apply(op, task_id, user_id, remind_at, out, rows) ==
    /\ nOps < MaxOps
    /\ nOps' = nOps + 1
    /\ store' = out.store
    /\ tagRows' = rows
    /\ published' = published \o out.events
    /\ submitted' = submitted \o out.jobs
    /\ lastOp' = [op |-> op, task_id |-> task_id, user_id |-> user_id,
                  remind_at |-> remind_at, was_sent |-> store[task_id].reminder_sent,
                  result |-> out.result, exc |-> out.exc]
    /\ UNCHANGED <<logLevel, calcVars, reactVars, notifVars, pubVars>>

CreateTask(new_id, user_id, title, priority, remind_at, dbOk) ==
    /\ Len(published) < MaxEvents
    /\ store[new_id] = NoRow
    /\ Apply("create_task", new_id, user_id, remind_at,
             TasksService_create_task(store, new_id, user_id, title, priority, remind_at, dbOk),
             tagRows)

UpdateTask(task_id, user_id, title, is_completed, priority, remind_at, dbOk) ==
    /\ Len(published) < MaxEvents
    /\ Apply("update_task", task_id, user_id, remind_at,
             TasksService_update_task(store, task_id, user_id, title, is_completed,
                                      priority, remind_at, dbOk),
             tagRows)

ToggleTask(task_id, user_id, dbOk) ==
    /\ Len(published) < MaxEvents
    /\ Apply("toggle_task_completion", task_id, user_id, None,
             TasksService_toggle_task_completion(store, task_id, user_id, dbOk), tagRows)

DeleteTask(task_id, user_id, dbOk) ==
    /\ Len(published) < MaxEvents
    /\ Apply("delete_task", task_id, user_id, None,
             TasksService_delete_task(store, task_id, user_id, dbOk), tagRows)

GetTask(task_id, user_id) ==
    Apply("get_task", task_id, user_id, None,
          TasksService_get_task_by_id(store, task_id, user_id), tagRows)

AddTag(task_id, user_id, tag_name) ==
    Apply("add_tag_to_task", task_id, user_id, None,
          TasksService_add_tag_to_task(store, task_id, user_id, tag_name),
          TagRowsAfterAdd(tagRows, store, task_id, user_id, tag_name))

RemoveTag(task_id, user_id, tag_name) ==
    Apply("remove_tag_from_task", task_id, user_id, None,
          TasksService_remove_tag_from_task(tagRows, store, task_id, user_id, tag_name),
          tagRows)

SetReminder(task_id, user_id, remind_at, dbOk) ==
    Apply("set_reminder", task_id, user_id, remind_at,
          TasksService_set_reminder(store, task_id, user_id, remind_at, dbOk), tagRows)

(* the reminder of a task is sent: the Task row's reminder_sent flag, "Whether *)
(* reminder notification was sent", is set                                    *)
MarkReminderSent(task_id) ==
    /\ store[task_id] # NoRow
    /\ store[task_id].remind_at # NoneDT /\ ~store[task_id].reminder_sent
    /\ store' = [store EXCEPT ![task_id].reminder_sent = TRUE]
    /\ UNCHANGED <<logLevel, calcVars, reactVars, notifVars, pubVars,
                   tagRows, published, submitted, lastOp, nOps>>

NextTasks ==
    \E task_id \in TaskIds : \E user_id \in Users : \E dbOk \in BOOLEAN :
        \/ GetTask(task_id, user_id)
        \/ \E tag_name \in TagNames : AddTag(task_id, user_id, tag_name)
        \/ \E tag_name \in TagNames : RemoveTag(task_id, user_id, tag_name)
        \/ \E remind_at \in RemindTexts : SetReminder(task_id, user_id, remind_at, dbOk)
        \/ \E title \in TaskTitles : \E priority \in PriorityTexts :
               \E remind_at \in RemindCreates :
                   CreateTask(task_id, user_id, title, priority, remind_at, dbOk)
        \/ \E title \in TitleUpdates : \E is_completed \in CompletedUpdates :
               \E priority \in PriorityTexts : \E remind_at \in RemindUpdates :
                   UpdateTask(task_id, user_id, title, is_completed, priority, remind_at, dbOk)
        \/ MarkReminderSent(task_id)
        \/ ToggleTask(task_id, user_id, dbOk)
        \/ DeleteTask(task_id, user_id, dbOk)

TasksInit == logLevel = "INFO" /\ InitCalc /\ InitReact /\ InitNotif /\ InitTasks /\ InitPub

SpecTasks == TasksInit /\ [][NextTasks]_vars

(* one call of publish_task_event *)
PublishTaskCall ==
    /\ pubOut = NoResult
    /\ pubIn.fn = "publish_task_event"
    /\ pubOut' = EventPublisher_publish_task_event(pubIn.enabled, pubIn.event_type,
                                                    pubIn.task, pubIn.user_id, pubIn.gateway)
    /\ UNCHANGED <<logLevel, calcVars, reactVars, notifVars, taskVars, pubIn>>

(* one call of publish_reminder_event *)
PublishReminderCall ==
    /\ pubOut = NoResult
    /\ pubIn.fn = "publish_reminder_event"
    /\ pubOut' = EventPublisher_publish_reminder_event(pubIn.enabled, pubIn.task,
                                                        pubIn.user_id, pubIn.gateway)
    /\ UNCHANGED <<logLevel, calcVars, reactVars, notifVars, taskVars, pubIn>>

NextPub == PublishTaskCall \/ PublishReminderCall

PubInit ==
    /\ logLevel = "INFO" /\ pubIn \in PubInputs /\ pubOut = NoResult
    /\ InitCalc /\ InitReact /\ InitNotif /\ InitTasks

SpecPub == PubInit /\ [][NextPub]_vars

-----------------------------------------------------------------------------
(* Properties *)
Is2xx(http) == http >= 200 /\ http <= 299
KnownPatterns == {"daily", "weekly", "monthly"}
Answered == last.kind = "answered"
CreationAttempted == Answered /\ CountKind(last.ans.calls, "create") > 0
WellFormed == bus.kind = "object" /\ bus.task_data.kind = "object"
RecurringCompletion ==
    /\ WellFormed
    /\ bus.event_type = "task.completed"
    /\ bus.task_data.recurrence \in KnownPatterns
    /\ bus.task_data.due_date.fmt # "garbage"

(* C1: when the creation call fails (timeout or a non-2xx answer of the      *)
(* owning service), the Reactivator answers the delivery with a non-2xx      *)
(* HTTP status.                                                              *)
C1_CreateFailureAnsweredNon2xx ==
    (CreationAttempted /\ last.env.create # "201") => ~Is2xx(last.ans.http)

(* C2: for daily, weekly and monthly and a previous due date strictly in the *)
(* past, naive or aware, calculate_next_due returns a timestamp strictly     *)
(* greater than now.                                                         *)
C2_NextDueStrictlyFuture ==
    (/\ calcOut # NoResult
     /\ calcIn.recurrence \in KnownPatterns
     /\ calcIn.current_due \in PastDues(calcIn.now))
    => (/\ calcOut.kind = "return"
        /\ calcOut.value # NoneDT
        /\ Instant(calcOut.value) > Instant(calcIn.now))

(* C3: a delivery whose event kind is not task.completed, or whose pattern   *)
(* is none, ends in IGNORED, is acknowledged and makes no outbound call.     *)
C3_NonRecurringIgnored ==
    (/\ Answered /\ WellFormed
     /\ (bus.event_type = "task.updated" \/ bus.task_data.recurrence = "none"))
    => (/\ last.ans.status = "IGNORED"
        /\ Is2xx(last.ans.http)
        /\ last.ans.calls = <<>>)

(* C4: a reminder payload with task id, title or user id missing or empty    *)
(* is a validation error answered with a 2xx status.                         *)
C4_ValidationErrorAcknowledged ==
    (/\ notifSeen["raw"] # NoResult
     /\ reminder.kind = "object"
     /\ ~validate_event_data(reminder))
    => (/\ notifSeen["raw"].ans.message = "Invalid reminder event data"
        /\ Is2xx(notifSeen["raw"].ans.http))

(* C5: a consumer gives the payload p and its wrapped form {data: p} the     *)
(* same answer and the same outbound effects (here: the Notifier).           *)
C5_WrappedSameAsRaw ==
    (/\ reminder.kind = "object"
     /\ notifSeen["raw"] # NoResult
     /\ notifSeen["wrapped"] # NoResult)
    => notifSeen["raw"].ans = notifSeen["wrapped"].ans

(* C6: when the owning service rejects the creation call with a 4xx status,  *)
(* the event is acknowledged and not reported as retryable.                  *)
C6_UpstreamRejectionTerminal ==
    (CreationAttempted /\ last.env.create = "400")
    => (Is2xx(last.ans.http) /\ last.ans.status # "RETRY")

MutationCommitted(p) ==
    IF p.event_type = "task.deleted" THEN p.db = NoRow ELSE p.db = p.task_data

(* C7 as stated: for every publish that create_task, update_task,            *)
(* toggle_task_completion or delete_task requests, the mutation is already   *)
(* committed to the store (for delete_task: the row is gone).                *)
C7_CommittedBeforeEveryPublish ==
    \A i \in 1..Len(published) : MutationCommitted(published[i])

(* C7, amended: create_task, update_task and toggle_task_completion        *)
(* request their publish after the commit; delete_task requests it before    *)
(* the row is deleted and the deletion committed.                            *)
C7_CommittedBeforePublishExceptDelete ==
    \A i \in 1..Len(published) :
        IF published[i].event_type = "task.deleted"
        THEN published[i].db # NoRow /\ published[i].db = published[i].task_data
        ELSE MutationCommitted(published[i])

C7_Witness ==
    /\ \E i \in 1..Len(published) :
           /\ published[i].event_type = "task.completed"
           /\ published[i].db.is_completed
    /\ \E i \in 1..Len(published) : published[i].event_type = "task.deleted"

(* C8: a completion event of a recurring task delivered without a bearer     *)
(* credential is answered SKIPPED with a 2xx status, and no call to the      *)
(* owning service is made.                                                   *)
C8_NoCredentialSkipped ==
    (Answered /\ RecurringCompletion /\ bus.auth = "")
    => (/\ last.ans.status = "SKIPPED"
        /\ Is2xx(last.ans.http)
        /\ last.ans.calls = <<>>)

Malformed ==
    \/ bus.kind \in {"notObject", "nullData"}
    \/ bus.kind = "object" /\ bus.task_data.kind \in {"null", "absent"}
    \/ WellFormed /\ bus.task_data.due_date.fmt = "garbage"

(* C9: a malformed payload (body no JSON object, data null, task_data null   *)
(* or missing, due_date unparseable) is acknowledged with a 2xx status, not  *)
(* reported as retryable, and causes no outbound call.                       *)
C9_MalformedAcknowledged ==
    (Answered /\ Malformed)
    => (/\ Is2xx(last.ans.http)
        /\ last.ans.status # "RETRY"
        /\ last.ans.calls = <<>>)

(* C10: n deliveries of the same completion event of a recurring task, with  *)
(* a credential and the owning service accepting, cause n creation POSTs.    *)
C10_OnePostPerDelivery ==
    (RecurringCompletion /\ bus.auth # "" /\ allAccepted)
    => nCreatePosts = nDeliveries

(* C11: whenever the creation POST succeeds, the delivery ends in SUCCESS    *)
(* and is acknowledged, whatever happens to the tag-attachment requests.     *)
C11_TagFailureNeverFailsCreation ==
    (CreationAttempted /\ last.env.create = "201")
    => (last.ans.status = "SUCCESS" /\ Is2xx(last.ans.http))

ParsedDue == IF bus.task_data.due_date.fmt = "absent" THEN Returned(NoneDT)
             ELSE fromisoformat(bus.task_data.due_date)
ComputedNextDue ==
    calculate_next_due(ParsedDue.value, bus.task_data.recurrence, Clock, Clock, logLevel)

(* C12: every creation request carries the snapshot's title, description,    *)
(* priority and recurrence pattern unchanged, the computed next due date as  *)
(* due_date, the completed task's id as parent_task_id, and a bearer-token   *)
(* authorization header.                                                     *)
C12_CreationRequestCarriesSnapshot ==
    Answered =>
        \A i \in 1..Len(last.ans.calls) :
            last.ans.calls[i].kind = "create" =>
                /\ last.ans.calls[i].authorization = <<"Bearer", Token(bus.auth)>>
                /\ Token(bus.auth) # ""
                /\ last.ans.calls[i].json.title = bus.task_data.title
                /\ last.ans.calls[i].json.description = bus.task_data.description
                /\ last.ans.calls[i].json.priority = bus.task_data.priority
                /\ last.ans.calls[i].json.recurrence = bus.task_data.recurrence
                /\ ParsedDue.kind = "return"
                /\ ComputedNextDue.kind = "return"
                /\ ComputedNextDue.value # NoneDT
                /\ last.ans.calls[i].json.due_date = isoformat(ComputedNextDue.value)
                /\ last.ans.calls[i].json.parent_task_id = bus.task_id

C12_Witness ==
    /\ Answered /\ last.ans.status = "SUCCESS"
    /\ bus.task_data.recurrence = "weekly"
    /\ bus.task_data.due_date.fmt = "iso"
    /\ last.ans.calls[1].kind = "create"
    /\ last.ans.calls[1].json.due_date = IsoString(DT(2025, 1, 15, 0, "naive"), "")
    /\ last.ans.calls[1].json.parent_task_id = "task-1"

EventBuilt ==
    IF pubIn.fn = "publish_task_event" THEN pubIn.task.tags.load = "ok"
    ELSE pubIn.task.remind_at # NoneDT

(* C13: publish_task_event and publish_reminder_event never raise; with      *)
(* publishing enabled, a transport failure (no connection, timeout, non-2xx  *)
(* answer) or an unexpected error makes them return False.                   *)
C13_PublishNeverRaises ==
    pubOut # NoResult =>
        /\ pubOut.kind = "return"
        /\ (pubIn.enabled /\ (pubIn.gateway # "204" \/ ~EventBuilt)) => pubOut.value = FALSE

C13_Witness ==
    /\ pubOut # NoResult /\ pubIn.enabled /\ EventBuilt
    /\ pubIn.fn = "publish_task_event"
    /\ pubIn.gateway = "TimeoutException"
    /\ pubOut.kind = "return" /\ pubOut.value = FALSE

(* C14 as stated: a publish call makes exactly one request to the gateway    *)
(* when publishing is enabled, and none, returning True, when it is          *)
(* disabled.                                                                 *)
C14_OneRequestWhenEnabled ==
    pubOut # NoResult =>
        IF pubIn.enabled THEN Len(pubOut.posts) = 1
        ELSE pubOut.posts = <<>> /\ pubOut.value = TRUE

(* C14, amended: with publishing enabled a publish call makes exactly one    *)
(* request when the event can be built from the task and none, returning     *)
(* False, when building it raises; with publishing disabled it makes none    *)
(* and returns True.                                                         *)
C14_OneRequestWhenEnabledAndBuilt ==
    pubOut # NoResult =>
        IF ~pubIn.enabled THEN pubOut.posts = <<>> /\ pubOut.value = TRUE
        ELSE IF EventBuilt THEN Len(pubOut.posts) = 1
        ELSE pubOut.posts = <<>> /\ pubOut.value = FALSE

C14_Witness ==
    /\ pubOut # NoResult /\ pubIn.enabled /\ EventBuilt
    /\ pubIn.fn = "publish_reminder_event"
    /\ pubIn.gateway = "500"
    /\ Len(pubOut.posts) = 1
    /\ pubOut.posts[1].topic = "reminders"

(* C15: no create_task, update_task, toggle_task_completion or delete_task   *)
(* fails because of the publish: whenever the handler's own steps succeed    *)
(* (the task is found, the input valid, the commit done) it returns its      *)
(* result, whatever becomes of the publish.                                  *)
C15_PublishNeverFailsMutation ==
    (lastOp.op # "none" /\ lastOp.exc \notin {"HTTPException", "OperationalError"})
    => (lastOp.result = "ok" /\ lastOp.exc = None)

ValidReminder == reminder.kind = "object" /\ validate_event_data(reminder)

(* C16: a reminder payload with a required field missing or empty causes no  *)
(* invocation of _send_notification, however often and in whatever shape it  *)
(* is delivered.                                                             *)
C16_InvalidReminderNeverDispatched ==
    (reminder.kind = "object" /\ ~validate_event_data(reminder)) => nDispatch = 0

C16_Witness ==
    /\ reminder.kind = "object"
    /\ "user_id" \notin reminder.keys
    /\ {"task_id", "title"} \subseteq reminder.keys
    /\ notifSeen["raw"] # NoResult
    /\ notifSeen["raw"].ans.message = "Invalid reminder event data"
    /\ nReminders = MaxDeliveries
    /\ nDispatch = 0

(* C17: when the dispatch of a valid reminder fails, the Notifier reports    *)
(* the dispatch error and answers with a non-2xx status.                     *)
C17_DispatchFailureRetryable ==
    \A sh \in Shapes :
        (/\ notifSeen[sh] # NoResult
         /\ notifSeen[sh].ans.dispatched = 1
         /\ notifSeen[sh].ans.status # "success")
        => (/\ notifSeen[sh].ans.message = "Failed to send notification"
            /\ ~Is2xx(notifSeen[sh].ans.http))

C17_Witness ==
    /\ ValidReminder
    /\ "due_at" \in reminder.keys /\ reminder.fields["due_at"] = "number"
    /\ notifSeen["raw"] # NoResult
    /\ notifSeen["raw"].ans.dispatched = 1
    /\ notifSeen["raw"].ans.http = 500

(* C18: n deliveries of the same valid reminder event cause n invocations of *)
(* _send_notification.                                                       *)
C18_EveryDeliveryDispatches ==
    ValidReminder => nDispatch = nReminders

(* C19: no delivery to the Reactivator or to the Notifier lets an exception  *)
(* leave the handler: each is answered by the handler itself, with a status. *)
C19_NoExceptionEscapes ==
    Answered => last.ans.status # "Internal Server Error"

(* C20: calculate_next_due returns nothing, without raising, for pattern     *)
(* none and for every pattern outside daily, weekly and monthly.             *)
C20_UnknownPatternReturnsNothing ==
    (calcOut # NoResult /\ calcIn.recurrence \notin KnownPatterns)
    => calcOut = Returned(NoneDT)

Anchor ==
    IF calcIn.current_due # NoneDT THEN calcIn.current_due
    ELSE IF calcIn.completed_at # NoneDT THEN calcIn.completed_at
    ELSE calcIn.now

(* C21: what calculate_next_due returns for a known pattern is computed from *)
(* the previous due date if there is one, else from the completion time if   *)
(* there is one, else from the current time.                                 *)
C21_AnchorPrecedence ==
    (/\ calcOut # NoResult /\ calcOut.kind = "return"
     /\ calcIn.recurrence \in KnownPatterns)
    => calcOut.value = FutureCorrect(Advance(Anchor, calcIn.recurrence), calcIn.now,
                                     calcIn.recurrence)

C21_Witness ==
    /\ calcOut # NoResult /\ calcOut.kind = "return"
    /\ calcIn.recurrence = "daily"
    /\ calcIn.current_due = NoneDT
    /\ calcIn.completed_at = DT(2025, 1, 7, 1, "naive")
    /\ calcIn.now = DT(2025, 1, 8, 0, "naive")
    /\ calcOut.value = DT(2025, 1, 8, 1, "naive")

IntervalDays == IF calcIn.recurrence = "daily" THEN 1 ELSE 7
Elapsed == Instant(calcIn.now) - Instant(Anchor)
LeastK == IF Elapsed < 0 THEN 1
          ELSE (Elapsed \div (IntervalDays * Cardinality(TimeSlots))) + 1

(* C22: for daily and weekly, whatever the anchor (naive or with a UTC       *)
(* offset), calculate_next_due returns anchor + k intervals for the least    *)
(* k >= 1 that makes it strictly greater than now.                           *)
C22_LeastFutureMultiple ==
    (calcOut # NoResult /\ calcIn.recurrence \in {"daily", "weekly"})
    => (/\ calcOut.kind = "return"
        /\ Ordinal(calcOut.value) = Ordinal(Anchor) + LeastK * IntervalDays
        /\ calcOut.value.t = Anchor.t /\ calcOut.value.tz = Anchor.tz
        /\ Instant(calcOut.value) > Instant(calcIn.now))

(* C23: for monthly, a returned date has the anchor's day of month, or the   *)
(* last day of its month when that month is shorter.                         *)
C23_MonthlyKeepsDayOfMonth ==
    (/\ calcOut # NoResult /\ calcOut.kind = "return"
     /\ calcIn.recurrence = "monthly")
    => calcOut.value.d =
         IF Anchor.d <= DaysInMonth(calcOut.value.y, calcOut.value.m) THEN Anchor.d
         ELSE DaysInMonth(calcOut.value.y, calcOut.value.m)

TaskEventPosts == {i \in 1..Len(pubOut.posts) : pubOut.posts[i].topic = "task-events"}

(* the snapshot that is published: the task's fields, ids as their strings *)
TaskSnapshot(task) ==
    [id |-> UuidStr(task.id), title |-> task.title, description |-> task.description,
     is_completed |-> task.is_completed, priority |-> task.priority,
     due_date |-> task.due_date, remind_at |-> task.remind_at,
     recurrence |-> task.recurrence, parent_task_id |-> UuidStr(task.parent_task_id),
     tags |-> task.tags.names, created_at |-> task.created_at,
     updated_at |-> task.updated_at]

C25_TaskDataIdIsTaskId ==
    pubOut # NoResult =>
        \A i \in TaskEventPosts :
            pubOut.posts[i].json.task_data.id = pubOut.posts[i].json.task_id

C25_Witness ==
    /\ pubOut # NoResult /\ TaskEventPosts # {}
    /\ pubIn.task.parent_task_id # NoUuid
    /\ pubOut.posts[1].json.task_id = "task-1"

(* C26: every event publish_reminder_event sends has a non-null remind_at,   *)
(* and none is sent for a task whose remind_at is unset.                     *)
C26_ReminderHasRemindAt ==
    (pubOut # NoResult /\ pubIn.fn = "publish_reminder_event") =>
        /\ \A i \in 1..Len(pubOut.posts) : pubOut.posts[i].json.remind_at # NullDate
        /\ pubIn.task.remind_at = NoneDT => pubOut.posts = <<>>

C26_Witness ==
    /\ pubOut # NoResult /\ pubIn.fn = "publish_reminder_event"
    /\ pubIn.enabled /\ pubIn.gateway = "204"
    /\ pubIn.task.remind_at = NoneDT
    /\ pubOut.posts = <<>> /\ pubOut.value = FALSE

(* C27: get, update, toggle, delete, tag and reminder operations issued by  *)
(* user U on a task that does not exist or is not owned by U are answered   *)
(* 404, leave the Task, TaskTag and Tag rows as they were and request no    *)
(* publish.                                                                 *)
IsolatedOps ==
    {"get_task", "update_task", "toggle_task_completion", "delete_task",
     "add_tag_to_task", "remove_tag_from_task", "set_reminder"}

C27_IsolatedPerUser ==
    [][(/\ nOps' = nOps + 1
        /\ lastOp'.op \in IsolatedOps
        /\ \/ store[lastOp'.task_id] = NoRow
           \/ store[lastOp'.task_id].user_id # lastOp'.user_id)
       => (/\ lastOp'.result = "404"
           /\ store' = store /\ tagRows' = tagRows
           /\ published' = published /\ submitted' = submitted)]_vars

C27_Witness ==
    /\ lastOp.op = "set_reminder" /\ lastOp.result = "404"
    /\ store[lastOp.task_id] # NoRow
    /\ store[lastOp.task_id].user_id # lastOp.user_id
    /\ store[lastOp.task_id].tags # {}

-----------------------------------------------------------------------------
(* Redelivery: the gateway holds one completion event of a recurring task   *)
(* with a credential; it delivers it, and delivers it again exactly while   *)
(* the last answer was not 2xx. The owning service is unavailable at the    *)
(* first delivery and available at every later one.                         *)
RetryMessages ==
    {m \in Messages : /\ m.kind = "object" /\ m.task_data.kind = "object"
                     /\ m.event_type = "task.completed"
                     /\ m.task_data.recurrence \in KnownPatterns
                     /\ m.task_data.due_date.fmt # "garbage"
                     /\ Token(m.auth) # ""}

Redeliverable == IF nDeliveries = 0 THEN TRUE ELSE ~Is2xx(last.ans.http)

ServiceAnswers(env) ==
    IF nDeliveries = 0 THEN env.create \in {"500", "timeout"}
    ELSE env.create = "201" /\ env.tagFail = {}

(* the handler keeps no state and reads the body, the header, the owning   *)
(* service's behaviour, the clock and the log level: its answer to every    *)
(* delivery of one message is a function of the body shape and of that      *)
(* behaviour                                                                *)
HandlerAnswers(msg, cfg) ==
    [d \in BOOLEAN \X Envs(msg) |->
        handle_task_event(Body(msg, d[1]), msg.auth, d[2], Clock, cfg)]

RetryDeliver(wrapped, env) ==
    /\ Redeliverable
    /\ ServiceAnswers(env)
    /\ LET ans == answerOf[<<wrapped, env>>]
       IN /\ last' = [kind |-> "answered", wrapped |-> wrapped, env |-> env, ans |-> ans]
          /\ nCreatePosts' = nCreatePosts + CountKind(ans.calls, "create")
          /\ nTagPosts' = nTagPosts + CountKind(ans.calls, "tag")
    /\ nDeliveries' = IF nDeliveries < MaxDeliveries THEN nDeliveries + 1 ELSE nDeliveries
    /\ allAccepted' = (allAccepted /\ env.create = "201" /\ env.tagFail = {})
    /\ UNCHANGED <<logLevel, calcVars, bus, answerOf, notifVars, taskVars, pubVars>>

NextRetry == \E wrapped \in BOOLEAN : \E env \in Envs(bus) : RetryDeliver(wrapped, env)

RetryInit ==
    /\ logLevel \in LogLevels /\ InitCalc /\ InitNotif /\ InitTasks /\ InitPub
    /\ bus \in RetryMessages /\ nDeliveries = 0 /\ nCreatePosts = 0 /\ nTagPosts = 0
    /\ last = NoResult /\ allAccepted = TRUE
    /\ answerOf = HandlerAnswers(bus, logLevel)

(* the gateway does redeliver what it holds for redelivery *)
SpecRetry == RetryInit /\ [][NextRetry]_vars /\ WF_vars(NextRetry)

(* the owning service has accepted a creation request for the held event *)
NextOccurrenceCreated ==
    /\ Answered /\ last.env.create = "201" /\ CountKind(last.ans.calls, "create") > 0

(* C28: a completion event of a recurring task first delivered while the    *)
(* owning service is unavailable, redelivered exactly while the answers are *)
(* not 2xx to an owning service that stays available, eventually has its    *)
(* next occurrence created.                                                 *)
C28_RedeliveryEventuallyCreates == <>NextOccurrenceCreated

(* C29: a creation POST is issued, and a delivery ends as created (SUCCESS) *)
(* or creation-failed (RETRY), only when the event kind is task.completed,  *)
(* the pattern is daily, weekly or monthly, a next due date was computed    *)
(* and a bearer credential is present.                                      *)
C29_CreationOnlyAfterEveryStep ==
    (Answered /\ (CreationAttempted \/ last.ans.status \in {"SUCCESS", "RETRY"}))
    => (/\ WellFormed
        /\ bus.event_type = "task.completed"
        /\ bus.task_data.recurrence \in KnownPatterns
        /\ ParsedDue.kind = "return"
        /\ ComputedNextDue.kind = "return"
        /\ ComputedNextDue.value # NoneDT
        /\ Token(bus.auth) # "")

C29_Witness ==
    /\ Answered /\ CreationAttempted
    /\ last.ans.status = "RETRY" /\ last.env.create = "timeout"
    /\ bus.task_data.recurrence = "monthly"

(* the entries a step appends to a log *)
Appended(before, after) == SubSeq(after, Len(before) + 1, Len(after))

(* an update_task or toggle_task_completion step that got past validation   *)
(* and the commit                                                           *)
CompletionStep ==
    /\ nOps' = nOps + 1
    /\ lastOp'.op \in {"update_task", "toggle_task_completion"}
    /\ lastOp'.exc \notin {"HTTPException", "OperationalError"}

BecameCompleted ==
    /\ ~store[lastOp'.task_id].is_completed
    /\ store'[lastOp'.task_id].is_completed

(* one event is appended: task.completed when is_completed went from false  *)
(* to true, task.updated otherwise                                          *)
EventKindRule(before, after) ==
    /\ Len(Appended(before, after)) = 1
    /\ Appended(before, after)[1].event_type =
         IF BecameCompleted THEN "task.completed" ELSE "task.updated"

(* C30: a task.completed event is published exactly when an operation       *)
(* changes is_completed from false to true; an update that sets             *)
(* is_completed=true on a completed task or is_completed=false, and a       *)
(* toggle that un-completes, publish task.updated instead.                  *)
C30_CompletedEventIffCompletion ==
    [][CompletionStep => EventKindRule(submitted, submitted')]_vars

(* the kinds of task-lifecycle event an operation may announce *)
KindsOf(op) ==
    CASE op = "create_task" -> {"task.created"}
      [] op = "update_task" -> {"task.updated", "task.completed"}
      [] op = "toggle_task_completion" -> {"task.updated", "task.completed"}
      [] op = "delete_task" -> {"task.deleted"}

(* a step of one of the four mutations that was not rejected (400, 404) and *)
(* whose commit did not fail                                                *)
MutationStep ==
    /\ nOps' = nOps + 1
    /\ lastOp'.op \in {"create_task", "update_task", "toggle_task_completion", "delete_task"}
    /\ lastOp'.exc \notin {"HTTPException", "OperationalError"}

OneEventOfKind(before, after) ==
    /\ Len(Appended(before, after)) = 1
    /\ Appended(before, after)[1].event_type \in KindsOf(lastOp'.op)

(* C31: every successful create_task, update_task, toggle_task_completion   *)
(* and delete_task submits exactly one task-lifecycle publish, of kind      *)
(* task.created, task.updated or task.completed, task.updated or            *)
(* task.completed, and task.deleted respectively.                           *)
C31_OnePublishPerMutation ==
    [][MutationStep => OneEventOfKind(submitted, submitted')]_vars

(* a step in which an operation requested a publish for its task *)
PublishRequested ==
    /\ nOps' = nOps + 1
    /\ Len(Appended(published, published')) = 1

C33_NoSelfFeeding ==
    /\ Answered => CountKind(last.ans.calls, "create") <= 1
    /\ nCreatePosts <= (IF bus.kind = "object" /\ bus.event_type = "task.completed"
                        THEN nDeliveries ELSE 0)

C33_Witness ==
    /\ Answered /\ WellFormed /\ bus.event_type = "task.created"
    /\ bus.task_data.recurrence = "daily" /\ Token(bus.auth) # ""
    /\ last.env.create = "201" /\ last.ans.status = "IGNORED"
    /\ nDeliveries = 2 /\ nCreatePosts = 0

(* the tag-attachment POSTs for the tags of the held message, in order *)
TagPostsFor(tags) == [i \in 1..Len(tags) |-> TagCall(Token(bus.auth), NewTaskId, tags[i])]

(* C34: tag-attachment POSTs are issued only after the creation POST        *)
(* returned 2xx, one per tag of the completed snapshot, in snapshot order,  *)
(* each addressed to the newly created task; none is issued when the        *)
(* creation POST fails or the tag list is empty.                            *)
C34_TagPostsFollowCreation ==
    Answered =>
        IF CreationAttempted /\ last.env.create = "201"
        THEN /\ last.ans.calls[1].kind = "create"
             /\ Tail(last.ans.calls) = TagPostsFor(bus.task_data.tags)
        ELSE CountKind(last.ans.calls, "tag") = 0

(* a step of create_task, update_task or set_reminder answered 400, or of   *)
(* any operation on a task answered 404                                     *)
RejectedStep ==
    /\ nOps' = nOps + 1
    /\ lastOp'.result \in {"400", "404"}

(* C35: a mutation that is rejected (400 on an invalid field, 404 on an     *)
(* unknown task) commits no change to the stored task and publishes no      *)
(* event.                                                                   *)
C35_RejectedChangesNothing ==
    [][RejectedStep =>
         (/\ store' = store /\ tagRows' = tagRows
          /\ published' = published /\ submitted' = submitted)]_vars

(* an update with a new title and an unparseable reminder time was rejected *)
(* and the stored title is still the one the task was created with          *)
C35_Witness ==
    /\ lastOp.op = "update_task" /\ lastOp.result = "400"
    /\ Len(published) = 1 /\ published[1].event_type = "task.created"
    /\ store[lastOp.task_id] = published[1].db
    /\ store[lastOp.task_id].title = "a"

LoopDone == calcOut # NoResult /\ calcOut.kind \in {"return", "raise"}

(* a run of the loop body *)
LoopBodyRan ==
    /\ calcOut # NoResult /\ calcOut.kind = "loop"
    /\ calcOut'.kind = "loop"

(* C36: the future-correction loop terminates for every known pattern and   *)
(* every anchor: each run of its body moves the candidate on by at least    *)
(* one day, and the call is eventually over.                                *)
C36_LoopTerminates ==
    /\ [][LoopBodyRan => Ordinal(calcOut'.value) >= Ordinal(calcOut.value) + 1]_vars
    /\ <>LoopDone

C36_Witness ==
    /\ LoopDone /\ calcOut.kind = "return"
    /\ calcIn.recurrence = "monthly" /\ calcOut.steps >= 2
    /\ Instant(calcOut.value) > Instant(calcIn.now)

TagOps == {"add_tag_to_task", "remove_tag_from_task"}

TagOrReminderStep ==
    /\ nOps' = nOps + 1
    /\ lastOp'.op \in TagOps \cup {"set_reminder"}

(* the row with its tag links and reminder fields left out *)
OtherFields(row) == [row EXCEPT !.tags = {}, !.remind_at = NoneDT, !.reminder_sent = FALSE]

Committed(op) == op.result \notin {"400", "404"} /\ op.exc # "OperationalError"

ReminderSupplied ==
    /\ nOps' = nOps + 1 /\ Committed(lastOp')
    /\ \/ lastOp'.op = "set_reminder"
       \/ lastOp'.op = "update_task" /\ lastOp'.remind_at # None

UpdateWithoutReminder ==
    /\ nOps' = nOps + 1
    /\ lastOp'.op = "update_task" /\ lastOp'.remind_at = None

(* C38: after set_reminder and after an update_task that supplies remind_at *)
(* (a time, or the empty string that clears it) the task's reminder_sent    *)
(* flag is false; an update_task without remind_at leaves the flag as it    *)
(* was.                                                                     *)
C38_ReminderSentReset ==
    [][/\ ReminderSupplied => ~store'[lastOp'.task_id].reminder_sent
       /\ UpdateWithoutReminder =>
              store'[lastOp'.task_id].reminder_sent = store[lastOp'.task_id].reminder_sent]_vars

C38_Witness ==
    /\ lastOp.op = "update_task" /\ Committed(lastOp)
    /\ lastOp.remind_at = "" /\ lastOp.was_sent
    /\ store[lastOp.task_id].remind_at = NoneDT
    /\ ~store[lastOp.task_id].reminder_sent

(* C39: the route the Notifier advertises for the reminders topic is a      *)
(* route on which the reminder handler is served: a delivery posted to the  *)
(* advertised route reaches handle_reminder_event, none is answered 404.    *)
C39_AdvertisedRouteServed ==
    subscription # NoSubscription =>
        /\ EndpointFor("POST", subscription.route) = "handle_reminder_event"
        /\ \A sh \in Shapes :
              notifSeen[sh] # NoResult => notifSeen[sh].ans.http \notin {404, 405}

=============================================================================
